---- MODULE Spec2Model ----
(***************************************************************************)
(* Model of the two USDT registration backends of pfmooney/usdt:           *)
(*   - usdt-impl/src/linker.rs    : header scraping (extract_providers and *)
(*     the four line extractors) and link-time code generation;            *)
(*   - usdt-impl/src/no-linker.rs : register_probes / ioctl_section.       *)
(* Text is modelled as sequences of one-character strings (linker.rs) or   *)
(* of byte values (no-linker.rs), offsets are 0-based as in Rust.          *)
(***************************************************************************)
EXTENDS Integers, Sequences, FiniteSets, TLC

VARIABLES
    \* ---- line extractors (linker.rs 250-304), one call per behaviour
    line,        \* the &str handed to the extractor
    fn,          \* which extractor is called
    lpc,         \* "call" before the call, "ret" after it
    res,         \* the extractor's outcome: None, Some(..) or Panic
    \* ---- link-time compilation (linker.rs 68-246)
    entry,       \* "source" (compile_provider_source) or "definition"
    ir,          \* the Provider IR: sequence of [name, probes]
    cpc,         \* position in the compilation
    nlines,      \* header lines consumed so far by extract_providers
    cur,         \* the header line consumed by the last loop iteration
    providers,   \* extract_providers' BTreeMap<String, ProviderInfo>
    tokens,      \* the emitted TokenStream (sequence of provider modules)
    cres,        \* outcome of the compilation: "none", "ok", "err", "panic"
    \* ---- runtime registration (no-linker.rs 91-164)
    data,        \* what the linker section holds
    section,     \* the Section the records deserialize to
    paths,       \* address -> owning module path, as addr_to_info resolves it
    rpc,         \* position inside register_probes
    calls,       \* calls of register_probes started so far
    module_name, \* the derived module identifier (bytes)
    modname,     \* the [c_char; 64] buffer
    opens,       \* number of opens of /dev/dtrace/helper attempted
    helper,      \* the File of /dev/dtrace/helper: "closed" or "open"
    ioctls,      \* control calls issued: sequence of [dofhp_mod, dof]
    errno,       \* the thread's last OS error
    rres,        \* outcome of register_probes
    \* ---- a generated probe site firing (linker.rs 183-199, no-linker.rs 56-80)
    backend,     \* "linker" or "section": the backend that generated the site
    patched,     \* the kernel has patched the is-enabled site (section backend)
    fpc,         \* position inside the probe macro's impl_block
    enabled_val, \* the value the is-enabled site yielded in this firing
    trace,       \* what this firing has executed so far
    fires,       \* firings started so far
    \* ---- build_providers (dtrace-parser/src/build.rs 32-119)
    target_os,   \* "macos" or "illumos"
    bpc,         \* the next step of build_providers
    ran,         \* the steps run so far, each with its outcome
    bres         \* outcome of build_providers

lvars == <<line, fn, lpc, res>>
cvars == <<entry, ir, cpc, nlines, cur, providers, tokens, cres>>
rvars == <<data, section, paths, rpc, calls, module_name, modname, opens, helper, ioctls, errno, rres>>
fvars == <<backend, patched, fpc, enabled_val, trace, fires>>
bvars == <<target_os, bpc, ran, bres>>
xvars == <<backend, patched, fpc, enabled_val, trace, fires, target_os, bpc, ran, bres>>
vars == <<line, fn, lpc, res, entry, ir, cpc, nlines, cur, providers, tokens, cres,
          data, section, paths, rpc, calls, module_name, modname, opens, helper, ioctls, errno, rres,
          backend, patched, fpc, enabled_val, trace, fires, target_os, bpc, ran, bres>>

(***************************************************************************)
(* Bounds                                                                  *)
(***************************************************************************)
MaxTail == 3          \* length of the generated text after a needle
MaxHeaderLines == 4   \* lines of a header extract_providers scans
MaxCalls == 2         \* calls of register_probes in one process
MaxFires == 2         \* firings of the probe site in one process

(***************************************************************************)
(* Option / panic outcomes                                                 *)
(***************************************************************************)
None == [tag |-> "None"]
Panic == [tag |-> "Panic"]
Some2(a, b) == [tag |-> "Some", provider |-> a, symbol |-> b]
Some3(a, b, c) == [tag |-> "Some", provider |-> a, probe |-> b, symbol |-> c]

(***************************************************************************)
(* str primitives, 0-based offsets, -1 for None                            *)
(***************************************************************************)
MinOf(S) == CHOOSE x \in S : \A y \in S : x <= y
MaxOf(S) == CHOOSE x \in S : \A y \in S : x >= y

Occurrences(hay, needle) ==
    {i \in 0..(Len(hay) - Len(needle)) : SubSeq(hay, i + 1, i + Len(needle)) = needle}

\* str::find
Find(hay, needle) ==
    IF Occurrences(hay, needle) = {} THEN -1 ELSE MinOf(Occurrences(hay, needle))

\* str::rfind
RFind(hay, needle) ==
    IF Occurrences(hay, needle) = {} THEN -1 ELSE MaxOf(Occurrences(hay, needle))

\* &s[a..b]; the caller checks SliceOk first (a slice out of order panics)
SliceOk(s, a, b) == 0 <= a /\ a <= b /\ b <= Len(s)
Slice(s, a, b) == SubSeq(s, a + 1, b)

\* s.split(sep).nth(n) for a one-character sep; None when there are fewer tokens
RECURSIVE SplitNth(_, _, _)
SplitNth(s, sep, n) ==
    LET i == Find(s, <<sep>>) IN
    IF n = 0
    THEN [tag |-> "Some", tok |-> IF i = -1 THEN s ELSE Slice(s, 0, i)]
    ELSE IF i = -1 THEN None ELSE SplitNth(Slice(s, i + 1, Len(s)), sep, n - 1)

(***************************************************************************)
(* The four needles                                                        *)
(***************************************************************************)
StabilityNeedle ==
    <<"_","_","_","d","t","r","a","c","e","_","s","t","a","b","i","l","i","t","y","$">>
TypedefsNeedle ==
    <<"_","_","_","d","t","r","a","c","e","_","t","y","p","e","d","e","f","s","$">>
EnabledNeedle ==
    <<"e","x","t","e","r","n"," ","i","n","t"," ",
      "_","_","d","t","r","a","c","e","_","i","s","e","n","a","b","l","e","d","$">>
ProbeNeedle ==
    <<"e","x","t","e","r","n"," ","v","o","i","d"," ",
      "_","_","d","t","r","a","c","e","_","p","r","o","b","e","$">>

(***************************************************************************)
(* contains_needle / contains_needle2                                      *)
(***************************************************************************)
\* variant: the needle is searched without its closing `$`
contains_needle_short(l, needle) ==
    LET index == Find(l, SubSeq(needle, 1, Len(needle) - 1)) IN
    IF index = -1 THEN None
    ELSE LET rest == Slice(l, index + Len(needle) - 1, Len(l))
             provider_end == Find(rest, <<"$">>)
         IN IF provider_end = -1 THEN Panic
            ELSE IF ~SliceOk(l, index + 1, Len(l) - 1) THEN Panic
            ELSE Some2(Slice(rest, 0, provider_end), Slice(l, index + 1, Len(l) - 1))

contains_needle(l, needle) ==
    LET index == Find(l, needle) IN
    IF index = -1 THEN None
    ELSE LET rest == Slice(l, index + Len(needle), Len(l))
             provider_end == Find(rest, <<"$">>)
         IN IF provider_end = -1 THEN Panic
            ELSE IF ~SliceOk(l, index + 1, Len(l) - 1) THEN Panic
            ELSE Some2(Slice(rest, 0, provider_end), Slice(l, index + 1, Len(l) - 1))

contains_needle2(l, needle) ==
    LET index == Find(l, needle) IN
    IF index = -1 THEN None
    ELSE LET rest == Slice(l, index + Len(needle), Len(l))
             provider_end == Find(rest, <<"$">>)
         IN IF provider_end = -1 THEN Panic
            ELSE LET rest2 == Slice(rest, provider_end + 1, Len(rest))
                     probe_end == Find(rest2, <<"$">>)
                 IN IF probe_end = -1 THEN Panic
                    ELSE LET end == RFind(l, <<"(">>)
                             third == SplitNth(l, " ", 2)
                         IN IF end = -1 \/ third.tag = "None" THEN Panic
                            ELSE LET start == Find(l, third.tok) IN
                                 IF ~SliceOk(l, start, end) THEN Panic
                                 ELSE Some3(Slice(rest, 0, provider_end),
                                            Slice(rest2, 0, probe_end),
                                            Slice(l, start, end))

is_stability_line(l) == contains_needle(l, StabilityNeedle)
is_typedefs_line(l) == contains_needle(l, TypedefsNeedle)
is_enabled_line(l) == contains_needle2(l, EnabledNeedle)
is_probe_line(l) == contains_needle2(l, ProbeNeedle)

(***************************************************************************)
(* Lines handed to the extractors                                          *)
(***************************************************************************)
Foo == <<"f","o","o">>
Bar == <<"b","a","r">>
Baz == <<"b","a","z">>
Qux == <<"q","u","x">>
Xxx == <<"x","x","x">>
Quote == <<"\"">>
Dollar == <<"$">>
ThisLineIsOk == <<"t","h","i","s"," ","l","i","n","e"," ","i","s"," ","o","k"," ">>
Bad == <<"b","a","d">>

\* the lines of the unit tests (linker.rs 339, 349, 359, 370, 344)
TestStabilityLine == ThisLineIsOk \o Quote \o StabilityNeedle \o Foo \o Dollar \o Bar \o Quote
TestTypedefsLine == ThisLineIsOk \o Quote \o TypedefsNeedle \o Foo \o Dollar \o Bar \o Quote
TestEnabledLine ==
    EnabledNeedle \o Foo \o Dollar \o Bar \o Dollar \o Xxx \o <<"(","v","o","i","d",")",";">>
TestProbeLine ==
    ProbeNeedle \o Foo \o Dollar \o Bar \o Dollar \o Xxx
        \o <<"(","w","h","a","t","e","v","e","r",")",";">>
TestLines == {TestStabilityLine, TestTypedefsLine, TestEnabledLine, TestProbeLine, Bad}
\* the same declarations, indented or followed by a blank
ShiftedLines ==
    {<<" ">> \o TestEnabledLine, <<" ">> \o TestProbeLine,
     TestStabilityLine \o <<" ">>, TestTypedefsLine \o <<" ">>}

Needles == {StabilityNeedle, TypedefsNeedle, EnabledNeedle, ProbeNeedle}
TailChars == {"f", "$", "(", " ", "\""}
Tails == UNION {[1..k -> TailChars] : k \in 0..MaxTail}
Prefixes == {<<>>, <<" ">>, Quote}
\* lines without any needle: the tests' "bad", the empty line, needles cut short
NoNeedleLines ==
    {Bad, <<>>, SubSeq(StabilityNeedle, 1, Len(StabilityNeedle) - 1) \o Foo,
     SubSeq(EnabledNeedle, 8, Len(EnabledNeedle)) \o Foo \o Dollar \o Bar \o Dollar \o <<"(">>}
Lines ==
    TestLines \cup ShiftedLines \cup NoNeedleLines
        \cup {p \o n \o t : p \in Prefixes, n \in Needles, t \in Tails}

Extractors == {"is_stability_line", "is_typedefs_line", "is_enabled_line", "is_probe_line"}
NeedleOf(f) ==
    CASE f = "is_stability_line" -> StabilityNeedle
      [] f = "is_typedefs_line" -> TypedefsNeedle
      [] f = "is_enabled_line" -> EnabledNeedle
      [] f = "is_probe_line" -> ProbeNeedle

(***************************************************************************)
(* Idle values of the three parts                                          *)
(***************************************************************************)
EmptyMap == [x \in {} |-> {}]
Put(m, k, v) == [x \in (DOMAIN m) \cup {k} |-> IF x = k THEN v ELSE m[x]]

LineIdle == line = <<>> /\ fn = "none" /\ lpc = "idle" /\ res = None
CompileIdle ==
    /\ entry = "none" /\ ir = <<>> /\ cpc = "idle" /\ nlines = 0 /\ cur = <<>>
    /\ providers = EmptyMap /\ tokens = <<>> /\ cres = "none"
RegisterIdle ==
    /\ data = "absent" /\ section = EmptyMap /\ paths = EmptyMap /\ rpc = "idle" /\ calls = 0
    /\ module_name = <<>> /\ modname = <<>> /\ opens = 0 /\ helper = "closed"
    /\ ioctls = <<>> /\ errno = 0 /\ rres = [tag |-> "NotCalled"]

FireIdle ==
    /\ backend = "none" /\ patched = FALSE /\ fpc = "idle" /\ enabled_val = 0
    /\ trace = <<>> /\ fires = 0
BuildIdle == target_os = "none" /\ bpc = "idle" /\ ran = <<>> /\ bres = "none"

(***************************************************************************)
(* SpecLine: one call of one extractor on one line                         *)
(***************************************************************************)
InitLine ==
    /\ line \in Lines /\ fn \in Extractors /\ lpc = "call" /\ res = None
    /\ CompileIdle /\ RegisterIdle /\ FireIdle /\ BuildIdle

IsStabilityLine ==
    /\ lpc = "call" /\ fn = "is_stability_line"
    /\ res' = is_stability_line(line)
    /\ lpc' = "ret"
    /\ UNCHANGED <<line, fn>> /\ UNCHANGED cvars /\ UNCHANGED rvars
    /\ UNCHANGED xvars

IsTypedefsLine ==
    /\ lpc = "call" /\ fn = "is_typedefs_line"
    /\ res' = is_typedefs_line(line)
    /\ lpc' = "ret"
    /\ UNCHANGED <<line, fn>> /\ UNCHANGED cvars /\ UNCHANGED rvars
    /\ UNCHANGED xvars

IsEnabledLine ==
    /\ lpc = "call" /\ fn = "is_enabled_line"
    /\ res' = is_enabled_line(line)
    /\ lpc' = "ret"
    /\ UNCHANGED <<line, fn>> /\ UNCHANGED cvars /\ UNCHANGED rvars
    /\ UNCHANGED xvars

IsProbeLine ==
    /\ lpc = "call" /\ fn = "is_probe_line"
    /\ res' = is_probe_line(line)
    /\ lpc' = "ret"
    /\ UNCHANGED <<line, fn>> /\ UNCHANGED cvars /\ UNCHANGED rvars
    /\ UNCHANGED xvars

NextLine == IsStabilityLine \/ IsTypedefsLine \/ IsEnabledLine \/ IsProbeLine

SpecLine == InitLine /\ [][NextLine]_vars

(***************************************************************************)
(* extract_providers (linker.rs 219-246)                                   *)
(***************************************************************************)
\* ProviderInfo::default()
ProviderInfoDefault ==
    [stability |-> <<>>, typedefs |-> <<>>, is_enabled |-> EmptyMap, probes |-> EmptyMap]

Scanned(m) == [panic |-> FALSE, map |-> m]
ScanPanic == [panic |-> TRUE, map |-> EmptyMap]

\* the four `if let` of one loop iteration, in program order
AfterStability(m, l) ==
    LET s == is_stability_line(l) IN
    IF s.tag = "Panic" THEN ScanPanic
    ELSE IF s.tag = "Some"
         THEN Scanned(Put(m, s.provider, [ProviderInfoDefault EXCEPT !.stability = s.symbol]))
         ELSE Scanned(m)

\* variant: `entry(..).or_default()` in place of `get_mut(..).unwrap()`
AfterTypedefs_or_default(st, l) ==
    IF st.panic THEN ScanPanic
    ELSE LET t == is_typedefs_line(l) IN
         IF t.tag = "Panic" THEN ScanPanic
         ELSE IF t.tag = "None" THEN st
         ELSE Scanned(Put(st.map, t.provider,
                  [(IF t.provider \in DOMAIN st.map THEN st.map[t.provider]
                    ELSE ProviderInfoDefault) EXCEPT !.typedefs = t.symbol]))

AfterTypedefs(st, l) ==
    IF st.panic THEN ScanPanic
    ELSE LET t == is_typedefs_line(l) IN
         IF t.tag = "Panic" THEN ScanPanic
         ELSE IF t.tag = "None" THEN st
         ELSE IF t.provider \notin DOMAIN st.map THEN ScanPanic
         ELSE Scanned([st.map EXCEPT ![t.provider].typedefs = t.symbol])

AfterEnabled(st, l) ==
    IF st.panic THEN ScanPanic
    ELSE LET e == is_enabled_line(l) IN
         IF e.tag = "Panic" THEN ScanPanic
         ELSE IF e.tag = "None" THEN st
         ELSE IF e.provider \notin DOMAIN st.map THEN ScanPanic
         ELSE Scanned([st.map EXCEPT ![e.provider].is_enabled =
                          Put(st.map[e.provider].is_enabled, e.probe, e.symbol)])

AfterProbe(st, l) ==
    IF st.panic THEN ScanPanic
    ELSE LET e == is_probe_line(l) IN
         IF e.tag = "Panic" THEN ScanPanic
         ELSE IF e.tag = "None" THEN st
         ELSE IF e.provider \notin DOMAIN st.map THEN ScanPanic
         ELSE Scanned([st.map EXCEPT ![e.provider].probes =
                          Put(st.map[e.provider].probes, e.probe, e.symbol)])

\* one iteration of the `for line in header.lines()` loop
ScanLine(m, l) == AfterProbe(AfterEnabled(AfterTypedefs(AfterStability(m, l), l), l), l)

(***************************************************************************)
(* Header lines the external provider compiler may print                   *)
(***************************************************************************)
Define == <<"#","d","e","f","i","n","e"," ","S"," ">>
V1 == <<"$","v","1">>
VoidArgs == <<"(","v","o","i","d",")",";">>
StabilityLine(p) == Define \o Quote \o StabilityNeedle \o p \o V1 \o Quote
TypedefsLine(p) == Define \o Quote \o TypedefsNeedle \o p \o V1 \o Quote
EnabledLine(p, q) == EnabledNeedle \o p \o Dollar \o q \o V1 \o VoidArgs
ProbeLine(p, q) == ProbeNeedle \o p \o Dollar \o q \o V1 \o VoidArgs
\* a stability and a typedefs marker on one line
BothLine(p) ==
    Define \o Quote \o StabilityNeedle \o p \o V1 \o <<" ">> \o TypedefsNeedle \o p \o V1 \o Quote
\* a marker cut short: no `$` closes the provider name
CutLine(p) == Define \o Quote \o TypedefsNeedle \o p
DoWhile == <<"}"," ","w","h","i","l","e"," ","(","0",")">>

HeaderLines ==
    {StabilityLine(Foo), TypedefsLine(Foo), EnabledLine(Foo, Bar), ProbeLine(Foo, Bar),
     EnabledLine(Foo, Qux), StabilityLine(Baz), TypedefsLine(Baz), BothLine(Baz),
     CutLine(Foo), <<>>, DoWhile}

(***************************************************************************)
(* Code generation (linker.rs 101-209)                                     *)
(***************************************************************************)
Underscore == <<"_">>
EnabledSuffix == <<"_","e","n","a","b","l","e","d">>
StabilityIdent == <<"s","t","a","b","i","l","i","t","y">>
TypedefsIdent == <<"t","y","p","e","d","e","f","s">>

\* CompileProvidersConfig::default(), as the unit test pins it down:
\* the module is named after the provider, the probe macro after the probe
provider_module(provider_name) == provider_name
probe_ident(provider_name, probe_name) == probe_name

Path(mod_name, ident) == [module |-> mod_name, ident |-> ident]
Placeholder(name) == [kind |-> "placeholder", name |-> name]
Literal(text) == [kind |-> "literal", text |-> text]

\* variant: the mangled probe symbol written into the asm template
compile_probe_literal(provider_name, probe_name, is_enabled, probe) ==
    LET mod_name == provider_module(provider_name)
        is_enabled_fn == provider_name \o Underscore \o probe_name \o EnabledSuffix
        probe_fn == probe_ident(provider_name, probe_name)
        extern_probe_fn == <<"_","_">> \o probe_fn
    IN [name |-> probe_name,
        pre_macro_block |->
            <<[ident |-> is_enabled_fn, link_name |-> is_enabled],
              [ident |-> extern_probe_fn, link_name |-> probe]>>,
        impl_block |->
            [is_enabled |-> Path(mod_name, is_enabled_fn),
             asm_template |->
                <<[text |-> ".reference ", operand |-> Placeholder("typedefs")],
                  [text |-> "call ", operand |-> Literal(probe)],
                  [text |-> ".reference ", operand |-> Placeholder("stability")]>>,
             asm_syms |->
                [typedefs |-> Path(mod_name, TypedefsIdent),
                 extern_probe_fn |-> Path(mod_name, extern_probe_fn),
                 stability |-> Path(mod_name, StabilityIdent)]]]

compile_probe(provider_name, probe_name, is_enabled, probe) ==
    LET mod_name == provider_module(provider_name)
        is_enabled_fn == provider_name \o Underscore \o probe_name \o EnabledSuffix
        probe_fn == probe_ident(provider_name, probe_name)
        extern_probe_fn == <<"_","_">> \o probe_fn
    IN [name |-> probe_name,
        pre_macro_block |->
            <<[ident |-> is_enabled_fn, link_name |-> is_enabled],
              [ident |-> extern_probe_fn, link_name |-> probe]>>,
        impl_block |->
            [is_enabled |-> Path(mod_name, is_enabled_fn),
             \* call_instruction is "call" on x86_64 ("bl" on aarch64)
             asm_template |->
                <<[text |-> ".reference ", operand |-> Placeholder("typedefs")],
                  [text |-> "call ", operand |-> Placeholder("extern_probe_fn")],
                  [text |-> ".reference ", operand |-> Placeholder("stability")]>>,
             asm_syms |->
                [typedefs |-> Path(mod_name, TypedefsIdent),
                 extern_probe_fn |-> Path(mod_name, extern_probe_fn),
                 stability |-> Path(mod_name, StabilityIdent)]]]

\* the BTreeMap indexing of compile_provider panics on a missing key
ProbeKnown(info, probe_name) ==
    probe_name \in DOMAIN info.is_enabled /\ probe_name \in DOMAIN info.probes

compile_provider(provider, info) ==
    IF \E i \in 1..Len(provider.probes) : ~ProbeKnown(info, provider.probes[i])
    THEN Panic
    ELSE [tag |-> "Tokens",
          module |-> provider_module(provider.name),
          externs |->
              <<[ident |-> StabilityIdent, link_name |-> info.stability],
                [ident |-> TypedefsIdent, link_name |-> info.typedefs]>>,
          probe_impls |->
              [i \in 1..Len(provider.probes) |->
                  compile_probe(provider.name, provider.probes[i],
                                info.is_enabled[provider.probes[i]],
                                info.probes[provider.probes[i]])]]

\* variant: `get(..).cloned().unwrap_or_default()` in place of the indexing
CompileOne_or_default(provider, m) ==
    compile_provider(provider,
        IF provider.name \in DOMAIN m THEN m[provider.name] ELSE ProviderInfoDefault)

\* provider_info[&provider.name] panics on a missing key
CompileOne(provider, m) ==
    IF provider.name \notin DOMAIN m THEN Panic
    ELSE compile_provider(provider, m[provider.name])

\* the map/collect of compile_provider_source: a panic unwinds the whole call
CompileAll(provs, m) ==
    IF \E i \in 1..Len(provs) : CompileOne(provs[i], m).tag = "Panic"
    THEN Panic
    ELSE [tag |-> "Tokens", stream |-> [i \in 1..Len(provs) |-> CompileOne(provs[i], m)]]

Prov(name, probes) == [name |-> name, probes |-> probes]
IRProviders ==
    {Prov(Foo, <<Bar>>), Prov(Foo, <<Bar, Qux>>), Prov(Foo, <<>>), Prov(Baz, <<>>)}
SourceIRs ==
    {<<>>} \cup {<<p>> : p \in IRProviders}
           \cup {<<Prov(Foo, <<Bar>>), Prov(Baz, <<>>)>>, <<Prov(Baz, <<>>), Prov(Foo, <<Bar>>)>>}

(***************************************************************************)
(* SpecLink: one link-time compilation                                     *)
(***************************************************************************)
InitLink ==
    /\ entry \in {"source", "definition"}
    /\ ir \in (IF entry = "source" THEN SourceIRs ELSE {<<p>> : p \in IRProviders})
    /\ cpc = "start" /\ nlines = 0 /\ cur = <<>>
    /\ providers = EmptyMap /\ tokens = <<>> /\ cres = "none"
    /\ LineIdle /\ RegisterIdle /\ FireIdle /\ BuildIdle

\* dtrace_parser::File::try_from(source)? of compile_provider_source
ParseSource ==
    /\ cpc = "start" /\ entry = "source"
    /\ \E ok \in BOOLEAN :
          IF ok THEN cpc' = "header" /\ cres' = cres
          ELSE cpc' = "done" /\ cres' = "err"
    /\ UNCHANGED <<entry, ir, nlines, cur, providers, tokens>>
    /\ UNCHANGED lvars /\ UNCHANGED rvars /\ UNCHANGED xvars

\* build_header_from_provider: `?` in compile_provider_source,
\* `.unwrap()` in compile_provider_from_definition
BuildHeader ==
    /\ \/ cpc = "header" /\ entry = "source"
       \/ cpc = "start" /\ entry = "definition"
    /\ \E ok \in BOOLEAN :
          IF ok THEN cpc' = "extract" /\ cres' = cres
          ELSE cpc' = "done" /\ cres' = (IF entry = "source" THEN "err" ELSE "panic")
    /\ UNCHANGED <<entry, ir, nlines, cur, providers, tokens>>
    /\ UNCHANGED lvars /\ UNCHANGED rvars /\ UNCHANGED xvars

\* one iteration of extract_providers' loop over the next header line
ExtractLine ==
    /\ cpc = "extract" /\ nlines < MaxHeaderLines
    /\ \E l \in HeaderLines :
          LET st == ScanLine(providers, l) IN
          /\ cur' = l
          /\ nlines' = nlines + 1
          /\ providers' = st.map
          /\ IF st.panic THEN cpc' = "done" /\ cres' = "panic"
             ELSE cpc' = cpc /\ cres' = cres
    /\ UNCHANGED <<entry, ir, tokens>>
    /\ UNCHANGED lvars /\ UNCHANGED rvars /\ UNCHANGED xvars

\* header.lines() is exhausted: extract_providers returns the map
EndOfHeader ==
    /\ cpc = "extract"
    /\ cpc' = "compile"
    /\ UNCHANGED <<entry, ir, nlines, cur, providers, tokens, cres>>
    /\ UNCHANGED lvars /\ UNCHANGED rvars /\ UNCHANGED xvars

CompileProviderSource ==
    /\ cpc = "compile" /\ entry = "source"
    /\ LET out == CompileAll(ir, providers) IN
       IF out.tag = "Panic" THEN tokens' = <<>> /\ cres' = "panic"
       ELSE tokens' = out.stream /\ cres' = "ok"
    /\ cpc' = "done"
    /\ UNCHANGED <<entry, ir, nlines, cur, providers>>
    /\ UNCHANGED lvars /\ UNCHANGED rvars /\ UNCHANGED xvars

CompileProviderFromDefinition ==
    /\ cpc = "compile" /\ entry = "definition"
    /\ LET out == CompileOne(ir[1], providers) IN
       IF out.tag = "Panic" THEN tokens' = <<>> /\ cres' = "panic"
       ELSE tokens' = <<out>> /\ cres' = "ok"
    /\ cpc' = "done"
    /\ UNCHANGED <<entry, ir, nlines, cur, providers>>
    /\ UNCHANGED lvars /\ UNCHANGED rvars /\ UNCHANGED xvars

NextLink ==
    \/ ParseSource \/ BuildHeader \/ ExtractLine \/ EndOfHeader
    \/ CompileProviderSource \/ CompileProviderFromDefinition

SpecLink == InitLink /\ [][NextLink]_vars

(***************************************************************************)
(* Byte strings of the runtime registration                                *)
(***************************************************************************)
Lower == <<"a","b","c","d","e","f","g","h","i","j","k","l","m",
           "n","o","p","q","r","s","t","u","v","w","x","y","z">>
Ord(c) ==
    CASE c = "/" -> 47
      [] c = "-" -> 45
      [] c = "." -> 46
      [] c = "?" -> 63
      [] OTHER -> 96 + (CHOOSE i \in 1..26 : Lower[i] = c)
Bytes(s) == [i \in 1..Len(s) |-> Ord(s[i])]
Repeat(b, n) == [i \in 1..n |-> b]
Slash == 47

\* format!("{:#x}", n): "0x" and the lowercase hexadecimal digits of n
HexDigit(d) == IF d < 10 THEN 48 + d ELSE 87 + d
RECURSIVE HexDigits(_)
HexDigits(n) == IF n < 16 THEN <<HexDigit(n)>> ELSE HexDigits(n \div 16) \o <<HexDigit(n % 16)>>
LowerHex(n) == <<48, 120>> \o HexDigits(n)

\* variant: split('/') in place of rsplit('/')
LastSegment_split(path) ==
    LET cuts == {i \in 1..Len(path) : path[i] = Slash} IN
    IF cuts = {} THEN path ELSE SubSeq(path, 1, MinOf(cuts) - 1)

\* path.rsplit('/').next(): the text after the last '/', the whole text without one
LastSegment(path) ==
    LET cuts == {i \in 1..Len(path) : path[i] = Slash} IN
    IF cuts = {} THEN path ELSE SubSeq(path, MaxOf(cuts) + 1, Len(path))

\* String ordering of the BTreeMap keys
LexLess(a, b) ==
    \/ Len(a) < Len(b) /\ SubSeq(b, 1, Len(a)) = a
    \/ \E i \in 1..Len(a) :
          /\ i <= Len(b) /\ a[i] < b[i]
          /\ SubSeq(a, 1, i - 1) = SubSeq(b, 1, i - 1)
\* map.values().next(): the value under the smallest key
FirstKey(m) == CHOOSE k \in DOMAIN m : \A j \in DOMAIN m : j = k \/ LexLess(k, j)

ModnameLen == 64
DofHelperCmd == 1685350403
UnknownModule == Bytes(<<"u","n","k","n","o","w","n","-","m","o","d","u","l","e">>)

\* `byte as i8`
AsI8(b) == IF b < 128 THEN b ELSE b - 256

\* lines 121-133: the module identifier of a Section; path is addr_to_info(..).1
ModuleName(sec, resolve) ==
    IF DOMAIN sec = {} THEN UnknownModule
    ELSE LET provider == sec[FirstKey(sec)] IN
         IF DOMAIN provider = {} THEN UnknownModule
         ELSE LET probe == provider[FirstKey(provider)]
                  path == resolve[probe.address]
              IN IF path.tag = "Some" THEN LastSegment(path.path)
                 ELSE <<63>> \o LowerHex(probe.address)

\* variant: take(modname.len()), no room left for the terminator
ModnameBuffer_full(name) ==
    [i \in 1..ModnameLen |-> IF i <= Len(name) THEN AsI8(name[i]) ELSE 0]

\* lines 134-137: the zeroed buffer, then the first modname.len() - 1 bytes
ModnameBuffer(name) ==
    [i \in 1..ModnameLen |->
        IF i <= Len(name) /\ i <= ModnameLen - 1 THEN AsI8(name[i]) ELSE 0]

\* crate::record::process_section: no Section for no data, an error for bad data
process_section(d, sec) ==
    CASE d \in {"absent", "empty"} -> [tag |-> "Ok", section |-> None]
      [] d = "malformed" -> [tag |-> "Err"]
      [] d = "records" -> [tag |-> "Ok", section |-> [tag |-> "Some", section |-> sec]]

\* lines 111-116
extract_probe_records_from_section(d, sec) == process_section(d, sec)

\* dof::serialize_section: the descriptor carries the Section
serialize_section(sec) == [dof |-> sec]

(***************************************************************************)
(* Inputs of the runtime registration                                      *)
(***************************************************************************)
ProviderNames == {Bytes(<<"a">>), Bytes(<<"a","b">>)}
ProbeNames == {Bytes(<<"p">>), Bytes(<<"q">>)}
Addrs == {0, 48879}
ProbeMaps == UNION {[D -> [address : Addrs]] : D \in SUBSET ProbeNames}
Sections == UNION {[D -> ProbeMaps] : D \in SUBSET ProviderNames}
LongName(n) == Repeat(109, n)
PathOpts ==
    {None} \cup
    {[tag |-> "Some", path |-> p] :
        p \in {Bytes(<<"/","u","s","r","/","l","i","b","/","l","i","b","f","o","o",".","s","o">>),
               Bytes(<<"a","p","p">>),
               Bytes(<<"/","o","p","t","/">>),
               <<Slash, 195, 169>>,
               <<Slash>> \o LongName(ModnameLen - 1),
               <<Slash>> \o LongName(ModnameLen),
               <<Slash>> \o LongName(ModnameLen + 6)}}
Errnos == {2, 13}

Ok == [tag |-> "Ok"]
IoErr(e) == [tag |-> "Err", kind |-> "io", code |-> e]
ParseErr == [tag |-> "Err", kind |-> "record"]
Running == [tag |-> "Running"]
NotCalled == [tag |-> "NotCalled"]

(***************************************************************************)
(* SpecReg: register_probes in one process                                 *)
(***************************************************************************)
InitReg ==
    /\ data \in {"absent", "empty", "malformed", "records"}
    /\ section \in (IF data = "records" THEN Sections ELSE {EmptyMap})
    /\ paths \in (IF data = "records" THEN [Addrs -> PathOpts] ELSE {[a \in Addrs |-> None]})
    /\ rpc = "idle" /\ calls = 0
    /\ module_name = <<>> /\ modname = <<>> /\ opens = 0 /\ helper = "closed"
    /\ ioctls = <<>> /\ errno = 0 /\ rres = NotCalled
    /\ LineIdle /\ CompileIdle /\ FireIdle /\ BuildIdle

\* variant: `.unwrap_or_default()` on the scanned Option
RegisterBranch_or_default(scan) ==
    IF scan.tag = "Err" THEN [k |-> "err"]
    ELSE IF scan.section.tag = "None" THEN [k |-> "register", section |-> EmptyMap]
    ELSE [k |-> "register", section |-> scan.section.section]

\* variant: `.unwrap_or(None)` on the scan in place of `?`
RegisterBranch_err_as_none(scan) ==
    IF scan.tag = "Err" THEN [k |-> "ok"]
    ELSE IF scan.section.tag = "None" THEN [k |-> "ok"]
    ELSE [k |-> "register", section |-> scan.section.section]

\* lines 120 and 139-141: `?` on the scan, then `if let Some(ref section)`
RegisterBranch(scan) ==
    IF scan.tag = "Err" THEN [k |-> "err"]
    ELSE IF scan.section.tag = "None" THEN [k |-> "ok"]
    ELSE [k |-> "register", section |-> scan.section.section]

\* variant: the test of ioctl(2)'s return value with the wrong sign
IoctlResult_positive(ret, e) == IF ret > 0 THEN IoErr(e) ELSE Ok

\* lines 159-163: the result of ioctl_section from ioctl(2)'s return value
IoctlResult(ret, e) == IF ret < 0 THEN IoErr(e) ELSE Ok

\* variant: a run-once guard, a call after the first returns Ok at once
RegisterProbes_once ==
    /\ rpc = "idle" /\ calls < MaxCalls
    /\ calls' = calls + 1
    /\ LET br == IF calls >= 1 THEN [k |-> "ok"]
                 ELSE RegisterBranch(extract_probe_records_from_section(data, section)) IN
       CASE br.k = "err" ->
              /\ rres' = ParseErr /\ rpc' = "idle"
              /\ UNCHANGED <<module_name, modname>>
         [] br.k = "ok" ->
              /\ rres' = Ok /\ rpc' = "idle"
              /\ UNCHANGED <<module_name, modname>>
         [] br.k = "register" ->
              /\ module_name' = ModuleName(br.section, paths)
              /\ modname' = ModnameBuffer(module_name')
              /\ rres' = Running /\ rpc' = "open"
    /\ UNCHANGED <<data, section, paths, opens, helper, ioctls, errno>>
    /\ UNCHANGED lvars /\ UNCHANGED cvars /\ UNCHANGED xvars

\* register_probes up to the call of ioctl_section (lines 119-138)
RegisterProbes ==
    /\ rpc = "idle" /\ calls < MaxCalls
    /\ calls' = calls + 1
    /\ LET br == RegisterBranch(extract_probe_records_from_section(data, section)) IN
       CASE br.k = "err" ->
              /\ rres' = ParseErr /\ rpc' = "idle"
              /\ UNCHANGED <<module_name, modname>>
         [] br.k = "ok" ->
              /\ rres' = Ok /\ rpc' = "idle"
              /\ UNCHANGED <<module_name, modname>>
         [] br.k = "register" ->
              /\ module_name' = ModuleName(br.section, paths)
              /\ modname' = ModnameBuffer(module_name')
              /\ rres' = Running /\ rpc' = "open"
    /\ UNCHANGED <<data, section, paths, opens, helper, ioctls, errno>>
    /\ UNCHANGED lvars /\ UNCHANGED cvars /\ UNCHANGED xvars

\* ioctl_section, lines 155-158: open /dev/dtrace/helper, `?` on failure
IoctlSectionOpen ==
    /\ rpc = "open"
    /\ opens' = opens + 1
    /\ \/ rpc' = "ioctl" /\ helper' = "open" /\ UNCHANGED <<errno, rres>>
       \/ \E e \in Errnos :
             errno' = e /\ rres' = IoErr(e) /\ rpc' = "idle" /\ helper' = helper
    /\ UNCHANGED <<data, section, paths, calls, module_name, modname, ioctls>>
    /\ UNCHANGED lvars /\ UNCHANGED cvars /\ UNCHANGED xvars

\* ioctl_section, lines 159-163: the control call, its result, the File dropped
IoctlSectionIoctl ==
    /\ rpc = "ioctl"
    /\ \E ret \in {-1, 0} :
          /\ ioctls' = Append(ioctls, [cmd |-> DofHelperCmd, dofhp_mod |-> modname,
                                       dofhp_dof |-> serialize_section(section),
                                       ret |-> ret])
          /\ IF ret < 0 THEN errno' \in Errnos ELSE errno' = errno
          /\ rres' = IoctlResult(ret, errno')
    /\ rpc' = "idle" /\ helper' = "closed"
    /\ UNCHANGED <<data, section, paths, calls, module_name, modname, opens>>
    /\ UNCHANGED lvars /\ UNCHANGED cvars /\ UNCHANGED xvars

NextReg == RegisterProbes \/ IoctlSectionOpen \/ IoctlSectionIoctl

SpecReg == InitReg /\ [][NextReg]_vars

(***************************************************************************)
(* SpecFire: a generated probe site firing, the registration and the       *)
(* kernel going on beside it                                               *)
(***************************************************************************)
\* what evaluating the is-enabled site yields.  linker.rs 185: the value
\* the extern predicate returns; no-linker.rs 58-66: rax after "clr rax",
\* another value only once the kernel has patched the instruction
IsEnabledSite(b, p, fnret) ==
    IF b = "linker" THEN fnret ELSE IF p THEN 1 ELSE 0

\* variant: `> 0` in place of `!= 0`
Enabled_positive(v) == v > 0

\* linker.rs 185 / no-linker.rs 68: `if is_enabled != 0`
Enabled(v) == v # 0

FullTrace == <<"is_enabled", "marshal", "probe">>
OneProbe == [p \in {Bytes(<<"a">>)} |-> [q \in {Bytes(<<"p">>)} |-> [address |-> 48879]]]
Registered == \E i \in 1..Len(ioctls) : ioctls[i].ret >= 0

InitFire ==
    /\ backend \in {"linker", "section"}
    /\ patched = FALSE /\ fpc = "idle" /\ enabled_val = 0 /\ trace = <<>> /\ fires = 0
    /\ data = (IF backend = "section" THEN "records" ELSE "absent")
    /\ section = (IF backend = "section" THEN OneProbe ELSE EmptyMap)
    /\ paths = (IF backend = "section" THEN [a \in Addrs |-> None] ELSE EmptyMap)
    /\ rpc = "idle" /\ calls = 0
    /\ module_name = <<>> /\ modname = <<>> /\ opens = 0 /\ helper = "closed"
    /\ ioctls = <<>> /\ errno = 0 /\ rres = NotCalled
    /\ LineIdle /\ CompileIdle /\ BuildIdle

\* the is-enabled site: the call of the predicate, or the first asm! block
ProbeIsEnabled ==
    /\ fpc = "idle" /\ backend # "none" /\ fires < MaxFires
    /\ \E fnret \in {-1, 0, 1} : enabled_val' = IsEnabledSite(backend, patched, fnret)
    /\ trace' = <<"is_enabled">>
    /\ fires' = fires + 1
    /\ fpc' = "branch"
    /\ UNCHANGED <<backend, patched>>
    /\ UNCHANGED lvars /\ UNCHANGED cvars /\ UNCHANGED rvars /\ UNCHANGED bvars

\* the `if` not taken: the firing is over
ProbeSkip ==
    /\ fpc = "branch" /\ ~Enabled(enabled_val)
    /\ fpc' = "idle"
    /\ UNCHANGED <<backend, patched, enabled_val, trace, fires>>
    /\ UNCHANGED lvars /\ UNCHANGED cvars /\ UNCHANGED rvars /\ UNCHANGED bvars

\* #unpacked_args inside the `if`
ProbeMarshal ==
    /\ fpc = "branch" /\ Enabled(enabled_val)
    /\ trace' = Append(trace, "marshal")
    /\ fpc' = "probe"
    /\ UNCHANGED <<backend, patched, enabled_val, fires>>
    /\ UNCHANGED lvars /\ UNCHANGED cvars /\ UNCHANGED rvars /\ UNCHANGED bvars

\* the asm! block of the probe: the call of the probe symbol, or the nop
ProbeInstruction ==
    /\ fpc = "probe"
    /\ trace' = Append(trace, "probe")
    /\ fpc' = "idle"
    /\ UNCHANGED <<backend, patched, enabled_val, fires>>
    /\ UNCHANGED lvars /\ UNCHANGED cvars /\ UNCHANGED rvars /\ UNCHANGED bvars

\* the kernel enables the registered probe and patches the is-enabled site
KernelPatch ==
    /\ backend = "section" /\ ~patched /\ Registered
    /\ patched' = TRUE
    /\ UNCHANGED <<backend, fpc, enabled_val, trace, fires>>
    /\ UNCHANGED lvars /\ UNCHANGED cvars /\ UNCHANGED rvars /\ UNCHANGED bvars

\* the kernel disables the probe and restores the instruction
KernelUnpatch ==
    /\ backend = "section" /\ patched
    /\ patched' = FALSE
    /\ UNCHANGED <<backend, fpc, enabled_val, trace, fires>>
    /\ UNCHANGED lvars /\ UNCHANGED cvars /\ UNCHANGED rvars /\ UNCHANGED bvars

NextFire ==
    \/ ProbeIsEnabled \/ ProbeSkip \/ ProbeMarshal \/ ProbeInstruction
    \/ KernelPatch \/ KernelUnpatch
    \/ RegisterProbes \/ IoctlSectionOpen \/ IoctlSectionIoctl

SpecFire == InitFire /\ [][NextFire]_vars

(***************************************************************************)
(* SpecBuild: one call of build_providers (dtrace-parser/src/build.rs)     *)
(***************************************************************************)
\* the targets build_providers is compiled for
TargetOs == {"macos", "illumos", "freebsd", "dragonfly", "openbsd", "netbsd"}

\* how a step of the build can end; the last three are those of a child
\* process run with Command::output()
StepOutcomes == {"ok", "err"}
CommandOutcomes == {"spawn_err", "exit_zero", "exit_nonzero"}
Succeeded(o) == o \in {"ok", "exit_zero"}

\* `.output().map_err(..)?`: output() is an Err only when the child could not
\* be run; the ExitStatus inside the Ok value is not looked at
OutputFailed(o) == o = "spawn_err"

\* `#[cfg(not(target_os = "macos"))]` on the `dtrace -G` step
AfterCompile(os) == IF os = "macos" THEN "archive" ELSE "dtrace_object"

InitBuild ==
    /\ target_os \in TargetOs /\ bpc = "canonicalize" /\ ran = <<>> /\ bres = "none"
    /\ LineIdle /\ CompileIdle /\ RegisterIdle /\ FireIdle

\* a step that ends with outcome o: `?` returns the error, else the next step
BuildStep(name, o, failed, nxt) ==
    /\ bpc = name
    /\ ran' = Append(ran, [step |-> name, outcome |-> o])
    /\ IF failed THEN bres' = "Err" /\ bpc' = "done"
       ELSE bres' = bres /\ bpc' = nxt
    /\ UNCHANGED target_os
    /\ UNCHANGED lvars /\ UNCHANGED cvars /\ UNCHANGED rvars /\ UNCHANGED fvars

Canonicalize ==
    \E o \in StepOutcomes : BuildStep("canonicalize", o, o = "err", "parse")

ParseProviderFile ==
    \E o \in StepOutcomes : BuildStep("parse", o, o = "err", "names")

SourceNames ==
    \E o \in StepOutcomes : BuildStep("names", o, o = "err", "out_dir")

OutDir ==
    \E o \in StepOutcomes : BuildStep("out_dir", o, o = "err", "make_path")

MakePaths ==
    \E o \in StepOutcomes : BuildStep("make_path", o, o = "err", "header")

GenerateProviderHeader ==
    \E o \in CommandOutcomes : BuildStep("header", o, OutputFailed(o), "write_c")

WriteCSourceFile ==
    \E o \in StepOutcomes : BuildStep("write_c", o, o = "err", "compile_c")

CompileCWrapper ==
    \E o \in StepOutcomes :
        BuildStep("compile_c", o, o = "err", AfterCompile(target_os))

DtraceObject ==
    /\ target_os # "macos"
    /\ \E o \in CommandOutcomes :
          BuildStep("dtrace_object", o, OutputFailed(o), "archive")

\* cc::Build::compile, not try_compile: a failure does not come back as a
\* Result, the cc crate ends the build script (by panic or by exit(1), as its
\* version has it); on success println! and Ok(())
Archive ==
    /\ bpc = "archive"
    /\ \E o \in StepOutcomes :
          /\ ran' = Append(ran, [step |-> "archive", outcome |-> o])
          /\ IF o = "ok" THEN bres' = "Ok" ELSE bres' \in {"Panic", "Exit"}
    /\ bpc' = "done"
    /\ UNCHANGED target_os
    /\ UNCHANGED lvars /\ UNCHANGED cvars /\ UNCHANGED rvars /\ UNCHANGED fvars

NextBuild ==
    \/ Canonicalize \/ ParseProviderFile \/ SourceNames \/ OutDir \/ MakePaths
    \/ GenerateProviderHeader \/ WriteCSourceFile \/ CompileCWrapper
    \/ DtraceObject \/ Archive

SpecBuild == InitBuild /\ [][NextBuild]_vars

(***************************************************************************)
(* The whole crate: any of its entry points                                *)
(***************************************************************************)
Init == InitLine \/ InitLink \/ InitReg \/ InitFire \/ InitBuild
Next == NextLine \/ NextLink \/ NextReg \/ NextFire \/ NextBuild
Spec == Init /\ [][Next]_vars

(***************************************************************************)
(* Vocabulary of the claims about header lines                             *)
(***************************************************************************)
Called(f) == lpc = "ret" /\ fn = f
HasNeedle(l, needle) == Find(l, needle) # -1
\* the text of l after the first occurrence of needle
AfterNeedle(l, needle) == SubSeq(l, Find(l, needle) + Len(needle) + 1, Len(l))
\* the `$`-delimited segments of t that are closed by a `$`
RECURSIVE Segments(_)
Segments(t) ==
    IF Find(t, Dollar) = -1 THEN <<>>
    ELSE <<SubSeq(t, 1, Find(t, Dollar))>> \o Segments(SubSeq(t, Find(t, Dollar) + 2, Len(t)))
\* the mangled name as written: from offset `from` up to the quote, blank or
\* parenthesis that ends it, or the end of the line
NameEnd(l, from) ==
    LET stops == {i \in from..(Len(l) - 1) : l[i + 1] \in {"\"", " ", "("}} IN
    IF stops = {} THEN Len(l) ELSE MinOf(stops)

\* C1 (as claimed): on every line that contains the stability (typedefs)
\* needle, is_stability_line (is_typedefs_line) returns Some((provider,
\* symbol)): provider is the text between the needle and the next `$`, symbol
\* is the mangled name as written with its first underscore removed.  Stated
\* on the lines where that provider exists (a `$` follows the needle).
C1_AsClaimed ==
    \A f \in {"is_stability_line", "is_typedefs_line"} :
        (/\ Called(f) /\ HasNeedle(line, NeedleOf(f))
         /\ Segments(AfterNeedle(line, NeedleOf(f))) # <<>>) =>
            /\ res.tag = "Some"
            /\ res.provider = Segments(AfterNeedle(line, NeedleOf(f)))[1]
            /\ res.symbol = SubSeq(line, Find(line, NeedleOf(f)) + 2,
                                   NameEnd(line, Find(line, NeedleOf(f))))

\* C2 (as claimed): on every line that contains the is-enabled (probe) needle,
\* is_enabled_line (is_probe_line) returns Some((provider, probe, symbol)):
\* provider and probe are the first and second `$`-delimited segments after the
\* needle, symbol is the text from `__dtrace_` up to the `(` of the parameters.
\* Stated on the lines where those exist (two `$` and a `(` follow the needle).
C2_AsClaimed ==
    \A f \in {"is_enabled_line", "is_probe_line"} :
        LET name_start == Find(line, NeedleOf(f)) + Find(NeedleOf(f), <<"_","_","d">>) IN
        (/\ Called(f) /\ HasNeedle(line, NeedleOf(f))
         /\ Len(Segments(AfterNeedle(line, NeedleOf(f)))) >= 2
         /\ Find(SubSeq(line, name_start + 1, Len(line)), <<"(">>) # -1) =>
            /\ res.tag = "Some"
            /\ res.provider = Segments(AfterNeedle(line, NeedleOf(f)))[1]
            /\ res.probe = Segments(AfterNeedle(line, NeedleOf(f)))[2]
            /\ res.symbol = SubSeq(line, name_start + 1,
                    name_start + Find(SubSeq(line, name_start + 1, Len(line)), <<"(">>))

\* the cases of C1 and C2 on the lines of the unit tests
C1_TestLines ==
    (Called("is_stability_line") /\ line = TestStabilityLine) =>
        res = Some2(Foo, SubSeq(StabilityNeedle, 2, 20) \o Foo \o Dollar \o Bar)
C2_TestLines ==
    (Called("is_enabled_line") /\ line = TestEnabledLine) =>
        res = Some3(Foo, Bar, SubSeq(EnabledNeedle, 12, 30) \o Foo \o Dollar \o Bar \o Dollar \o Xxx)

\* C3: an extractor called on a line that does not contain its needle returns
\* None (no panic), and an iteration of extract_providers over a line that
\* contains none of the four needles leaves the provider map as it was and
\* the scan running.
C3_NoNeedleNoMatch ==
    /\ [](\A f \in Extractors : (Called(f) /\ ~HasNeedle(line, NeedleOf(f))) => res = None)
    /\ [][(cpc = "extract" /\ nlines' = nlines + 1
             /\ \A n \in Needles : ~HasNeedle(cur', n))
          => (providers' = providers /\ cpc' = "extract" /\ cres' = cres)]_vars

\* a needle-free line went through the scan loop (and so through the four
\* extractors) after the stability line of foo
C3_Witness ==
    /\ cpc = "extract" /\ nlines > 1 /\ cur = DoWhile
    /\ Foo \in DOMAIN providers

(***************************************************************************)
(* Claims about the link-time code generation                              *)
(***************************************************************************)
Compiled == cpc = "done" /\ cres = "ok"
\* the mangled names scraped from the header for provider p and its probe q
EnabledSym(p, q) == providers[p].is_enabled[q]
ProbeSym(p, q) == providers[p].probes[q]
Declares(externs, ident, sym) ==
    \E k \in 1..Len(externs) : externs[k].ident = ident /\ externs[k].link_name = sym

\* C4: in the emitted code every mangled symbol is the link_name of an extern
\* declaration (stability, typedefs at the provider; is-enabled, probe at the
\* probe), every operand of the asm template is a named placeholder, and the
\* placeholders typedefs, extern_probe_fn and stability are bound by `sym` to
\* the paths of those declarations; no template operand is a literal.
C4_SymbolsOnlyByLinkName ==
    Compiled =>
        \A i \in 1..Len(tokens) :
            LET t == tokens[i]
                p == ir[i].name
            IN /\ Declares(t.externs, StabilityIdent, providers[p].stability)
               /\ Declares(t.externs, TypedefsIdent, providers[p].typedefs)
               /\ \A j \in 1..Len(t.probe_impls) :
                    LET pi == t.probe_impls[j]
                        q == ir[i].probes[j]
                        asm == pi.impl_block
                    IN /\ Declares(pi.pre_macro_block, asm.is_enabled.ident, EnabledSym(p, q))
                       /\ Declares(pi.pre_macro_block, asm.asm_syms.extern_probe_fn.ident,
                                   ProbeSym(p, q))
                       /\ asm.asm_syms.typedefs = Path(t.module, TypedefsIdent)
                       /\ asm.asm_syms.stability = Path(t.module, StabilityIdent)
                       /\ asm.asm_syms.extern_probe_fn.module = t.module
                       /\ \A k \in 1..Len(asm.asm_template) :
                            /\ asm.asm_template[k].operand.kind = "placeholder"
                            /\ asm.asm_template[k].operand.name \in DOMAIN asm.asm_syms
                       /\ {asm.asm_template[k].operand.name : k \in 1..Len(asm.asm_template)}
                              = {"typedefs", "extern_probe_fn", "stability"}

\* code was emitted for provider foo with its probe bar
C4_Witness ==
    /\ Compiled /\ Len(tokens) >= 1
    /\ ir[1] = Prov(Foo, <<Bar>>)
    /\ Len(tokens[1].probe_impls) = 1
    /\ tokens[1].probe_impls[1].pre_macro_block[2].link_name = ProbeSym(Foo, Bar)

\* the IR names a provider or a probe the parsed header has no entry for
MissingInfo ==
    \E i \in 1..Len(ir) :
        \/ ir[i].name \notin DOMAIN providers
        \/ \E j \in 1..Len(ir[i].probes) :
              \/ ir[i].probes[j] \notin DOMAIN providers[ir[i].name].is_enabled
              \/ ir[i].probes[j] \notin DOMAIN providers[ir[i].name].probes

\* C5: when the IR declares a provider or probe without a ProviderInfo entry
\* (no provider entry, no is_enabled entry, no probes entry), the compilation
\* step fails (panics) and emits no tokens; code that was emitted carries, for
\* every probe, the is-enabled and probe symbols of the header, never a default.
C5_MissingInfoFails ==
    /\ [][(cpc = "compile" /\ MissingInfo) => (cres' = "panic" /\ tokens' = <<>>)]_vars
    /\ [](Compiled =>
            /\ ~MissingInfo
            /\ \A i \in 1..Len(tokens) : \A j \in 1..Len(tokens[i].probe_impls) :
                 /\ tokens[i].probe_impls[j].pre_macro_block[1].link_name
                        = EnabledSym(ir[i].name, ir[i].probes[j])
                 /\ tokens[i].probe_impls[j].pre_macro_block[2].link_name
                        = ProbeSym(ir[i].name, ir[i].probes[j]))

\* the header had an is_enabled entry but no probes entry for foo's probe qux,
\* and the compilation failed without tokens
C5_Witness ==
    /\ cpc = "done" /\ cres = "panic" /\ tokens = <<>>
    /\ ir = <<Prov(Foo, <<Bar, Qux>>)>>
    /\ Foo \in DOMAIN providers
    /\ Qux \in DOMAIN providers[Foo].is_enabled
    /\ Qux \notin DOMAIN providers[Foo].probes

\* the providers a line names after needle n
Named(l, n) ==
    IF HasNeedle(l, n) /\ Segments(AfterNeedle(l, n)) # <<>>
    THEN {Segments(AfterNeedle(l, n))[1]} ELSE {}
\* the providers a typedefs, is-enabled or probe match of l names although no
\* stability match was handled before it (on an earlier line, or earlier on l)
Unannounced(m, l) ==
    (Named(l, TypedefsNeedle) \cup Named(l, EnabledNeedle) \cup Named(l, ProbeNeedle))
        \ ((DOMAIN m) \cup Named(l, StabilityNeedle))

\* C6: an iteration of extract_providers over a typedefs, is-enabled or probe
\* line that names a provider no stability match was handled for before makes
\* the scan panic at that line; no entry is created for that provider and the
\* scan does not go on.
C6_UnannouncedProviderPanics ==
    [][(cpc = "extract" /\ nlines' = nlines + 1 /\ Unannounced(providers, cur') # {})
       => (/\ cres' = "panic" /\ cpc' = "done"
           /\ Unannounced(providers, cur') \cap DOMAIN providers' = {})]_vars

\* the scan panicked on the typedefs line of baz, foo being the only provider
\* announced
C6_Witness ==
    /\ cpc = "done" /\ cres = "panic" /\ nlines = 2
    /\ cur = TypedefsLine(Baz)

(***************************************************************************)
(* Claims about the runtime registration                                   *)
(***************************************************************************)
Scan == extract_probe_records_from_section(data, section)
NoSection == Scan.tag = "Ok" /\ Scan.section = None
Registering == data = "records" /\ calls >= 1

\* C7: when the scan of the section yields no Section (the section is absent
\* or empty), every call of register_probes returns Ok, the helper device is
\* never opened and no control call is issued.
C7_NoSectionNoEffect ==
    NoSection =>
        /\ rpc = "idle" /\ opens = 0 /\ helper = "closed" /\ ioctls = <<>>
        /\ calls >= 1 => rres = Ok
        /\ errno = 0

C7_Witness == data = "empty" /\ calls >= 1 /\ rres = Ok /\ opens = 0

NoProbes(sec) == \A p \in DOMAIN sec : DOMAIN sec[p] = {}
HasChosen(sec) == DOMAIN sec # {} /\ DOMAIN sec[FirstKey(sec)] # {}
Chosen(sec) == sec[FirstKey(sec)][FirstKey(sec[FirstKey(sec)])]
\* seg is what follows the last '/' of path (all of path when it has none)
IsFinalSegment(seg, path) ==
    /\ \A i \in 1..Len(seg) : seg[i] # Slash
    /\ Len(seg) <= Len(path)
    /\ SubSeq(path, Len(path) - Len(seg) + 1, Len(path)) = seg
    /\ Len(seg) < Len(path) => path[Len(path) - Len(seg)] = Slash
RECURSIVE HexValue(_)
HexValue(ds) ==
    IF ds = <<>> THEN 0
    ELSE 16 * HexValue(SubSeq(ds, 1, Len(ds) - 1))
           + (IF ds[Len(ds)] <= 57 THEN ds[Len(ds)] - 48 ELSE ds[Len(ds)] - 87)
\* name is `?`, then the address in lowercase hexadecimal notation (0x...)
IsQuestionHex(name, addr) ==
    /\ Len(name) >= 4
    /\ SubSeq(name, 1, 3) = <<63, 48, 120>>
    /\ \A i \in 4..Len(name) : name[i] \in (48..57) \cup (97..102)
    /\ Len(name) > 4 => name[4] # 48
    /\ HexValue(SubSeq(name, 4, Len(name))) = addr

\* C8: the module identifier register_probes derives from a Section is the
\* final '/'-separated segment of the path the chosen probe's address resolves
\* to; `?` and the lowercase hexadecimal address (0x notation) when it does
\* not resolve; `unknown-module` when the Section holds no probes at all.
C8_ModuleIdentifier ==
    Registering =>
        /\ (HasChosen(section) /\ paths[Chosen(section).address].tag = "Some")
              => IsFinalSegment(module_name, paths[Chosen(section).address].path)
        /\ (HasChosen(section) /\ paths[Chosen(section).address].tag = "None")
              => IsQuestionHex(module_name, Chosen(section).address)
        /\ NoProbes(section) => module_name = UnknownModule

C8_Witness ==
    /\ Registering /\ HasChosen(section)
    /\ paths[Chosen(section).address].tag = "Some"
    /\ module_name = Bytes(<<"l","i","b","f","o","o",".","s","o">>)

C8_WitnessUnresolved ==
    /\ Registering /\ HasChosen(section)
    /\ module_name = <<63, 48, 120, 98, 101, 101, 102>>

C8_WitnessUnknown == Registering /\ NoProbes(section) /\ module_name = UnknownModule

\* b is the c_char holding byte v
SameByte(b, v) == b \in -128..127 /\ (b - v) % 256 = 0
Min2(a, b) == IF a < b THEN a ELSE b
BufferHolds(buf, name) ==
    /\ Len(buf) = ModnameLen
    /\ \A i \in 1..Min2(Len(name), ModnameLen - 1) : SameByte(buf[i], name[i])
    /\ \A i \in (Min2(Len(name), ModnameLen - 1) + 1)..ModnameLen : buf[i] = 0
    /\ buf[ModnameLen] = 0

\* C9: for a module name of any length the 64-byte buffer, as built and as
\* passed to every control call, holds the first min(len, 63) bytes of the
\* name and then only zero bytes, its last byte being zero; a name longer than
\* 63 bytes is truncated and the call goes on to open the device.
C9_ModnameBuffer ==
    Registering =>
        /\ BufferHolds(modname, module_name)
        /\ \A i \in 1..Len(ioctls) : BufferHolds(ioctls[i].dofhp_mod, module_name)
        /\ rres # ParseErr
        /\ (rpc = "idle" /\ Len(module_name) > ModnameLen - 1) => opens >= 1

\* a 70-byte name went, truncated, into a control call
C9_Witness ==
    /\ Registering /\ Len(module_name) = ModnameLen + 6
    /\ Len(ioctls) >= 1
    /\ ioctls[1].dofhp_mod[ModnameLen - 1] = 109

\* C10: with a Section to register, the control call is issued only on the
\* open helper device; a failed open returns its I/O error and issues no
\* control call; a negative result of the control call returns the last OS
\* error; the outcome is always a value (Ok or Err) handed to the caller.
C10_OpenThenIoctl ==
    /\ [][Len(ioctls') > Len(ioctls) => (helper = "open" /\ opens >= Len(ioctls'))]_vars
    /\ [][(rpc = "open" /\ rpc' = "idle")
            => (rres' = IoErr(errno') /\ errno' \in Errnos /\ ioctls' = ioctls)]_vars
    /\ [][(rpc = "ioctl" /\ ioctls'[Len(ioctls')].ret < 0)
            => (rpc' = "idle" /\ rres' = IoErr(errno') /\ errno' \in Errnos)]_vars
    /\ [](rres.tag \in {"NotCalled", "Running", "Ok", "Err"})
    /\ [](rpc = "idle" /\ calls >= 1 => rres.tag \in {"Ok", "Err"})

\* the control call failed with EACCES and register_probes returned that error
C10_Witness ==
    /\ rpc = "idle" /\ Len(ioctls) = 1 /\ ioctls[1].ret < 0
    /\ rres = IoErr(13) /\ opens = 1

\* the open failed and register_probes returned its error without a control call
C10_WitnessOpen == rpc = "idle" /\ opens = 1 /\ ioctls = <<>> /\ rres = IoErr(2)

\* C11: when the section bytes do not deserialize into a Section (the scan
\* returns an error), every call of register_probes ends with that error: it
\* does not return Ok, derives no module name, never opens the helper device
\* and issues no control call.
C11_MalformedIsFailure ==
    Scan.tag = "Err" =>
        /\ rpc = "idle" /\ opens = 0 /\ helper = "closed" /\ ioctls = <<>>
        /\ module_name = <<>> /\ modname = <<>>
        /\ calls >= 1 => rres = ParseErr

C11_Witness == data = "malformed" /\ calls >= 1 /\ rres = ParseErr /\ opens = 0

(***************************************************************************)
(* Claims about the probe site                                             *)
(***************************************************************************)
IsPrefix(a, b) == Len(a) <= Len(b) /\ SubSeq(b, 1, Len(a)) = a

\* C12: in every firing, of either backend, the is-enabled site is evaluated
\* first; the arguments are marshaled and then the probe instruction executed
\* if and only if it yielded non-zero; in the section backend it yields zero
\* while the kernel has not patched it, so no firing marshals arguments or
\* executes the probe instruction before a registration has succeeded.
C12_EnabledThenProbe ==
    /\ [](IsPrefix(trace, FullTrace))
    /\ [](Len(trace) >= 2 => enabled_val # 0)
    /\ []((fpc = "idle" /\ fires >= 1) =>
            /\ enabled_val # 0 => trace = FullTrace
            /\ enabled_val = 0 => trace = <<"is_enabled">>)
    /\ [][(backend = "section" /\ ~patched /\ fpc = "idle" /\ fpc' = "branch")
            => enabled_val' = 0]_vars
    /\ []((backend = "section" /\ ~Registered) => (~patched /\ Len(trace) <= 1))

\* a firing of the section backend ran the probe instruction after the
\* kernel's patch
C12_Witness ==
    /\ backend = "section" /\ fpc = "idle" /\ trace = FullTrace /\ Registered

\* a firing of the link-time backend was skipped on a zero predicate
C12_WitnessSkip ==
    /\ backend = "linker" /\ fpc = "idle" /\ fires >= 1 /\ trace = <<"is_enabled">>

(***************************************************************************)
(* Claims about repeated registration                                      *)
(***************************************************************************)
HasSection == Scan.tag = "Ok" /\ Scan.section # None

StepOrder(os) ==
    <<"canonicalize", "parse", "names", "out_dir", "make_path", "header",
      "write_c", "compile_c">>
    \o (IF os = "macos" THEN <<>> ELSE <<"dtrace_object">>) \o <<"archive">>

StepNames == [i \in 1..Len(ran) |-> ran[i].step]

\* C14 (as claimed): build_providers runs its steps in the fixed order, and a
\* step that ends unsuccessfully (the provider compiler exiting with a failure
\* status and the archive step failing included) is the last step run and
\* makes build_providers return an error.
C14_AsClaimed ==
    /\ IsPrefix(StepNames, StepOrder(target_os))
    /\ \A i \in 1..Len(ran) :
          ~Succeeded(ran[i].outcome) => (i = Len(ran) /\ bres = "Err")

(***************************************************************************)
(* Claims about panics in the extractors                                   *)
(***************************************************************************)
\* C15 (as claimed): each of the four extractors returns None or Some(..) on
\* every line, never panicking: also on a line that holds the needle with no
\* `$` after it, with no second `$`, with no `(`, or with text or blanks
\* before the needle.
C15_AsClaimed ==
    \A f \in Extractors : Called(f) => res.tag \in {"None", "Some"}

====
